---- MODULE Spec2Model ----
(***************************************************************************)
(* cherry-quick (src/cherry-quick.mjs): fetch the commits of --from that   *)
(* are cherry-pickable onto --to, let the user select some of them in an   *)
(* interactive prompt, and print (optionally copy) the generated command.  *)
(*                                                                         *)
(* Strings are sequences of one-character strings.  Timestamps are kept in *)
(* seconds (git's %at); the source multiplies them by 1000, which changes  *)
(* neither their order nor their calendar date.                            *)
(***************************************************************************)
EXTENDS Integers, Sequences, FiniteSets, TLC

VARIABLES
    pc,                 \* position of the top-level script
    help,               \* values.help
    cherryPickBranch,   \* values.branch || undefined   (<<>> is undefined)
    includeBranch,      \* values.include || DEFAULT_INCLUDE_BRANCH (<<>> is undefined)
    tz,                 \* offset of the local time zone, in seconds
    fromBranchCherryPickableFullHashes,
    includeBranchCherryPickableFullHashes,
    fromBranchCommits,
    fromBranchCherryPickableCommits,
    choices,            \* the choice list handed to the AutoComplete prompt
    cherryPickCommitsFullHashes,
    cherryPickCommits,
    command,            \* the statements joined by ' && \\\n'
    stdout,             \* what console.log printed (commands run by the shell helper left out)
    clipboard,
    error,              \* the uncaught error that ended the process, if any
    exitCode,           \* -1 while the process runs
    typed,              \* what the user typed in the prompt
    suggested,          \* the list suggest() returned for it
    text,               \* argument of truncate
    truncated,          \* its result
    title               \* result of generatePullRequestTitleFromBranch

vars == <<pc, help, cherryPickBranch, includeBranch, tz,
          fromBranchCherryPickableFullHashes, includeBranchCherryPickableFullHashes,
          fromBranchCommits, fromBranchCherryPickableCommits, choices,
          cherryPickCommitsFullHashes, cherryPickCommits, command, stdout,
          clipboard, error, exitCode, typed, suggested, text, truncated, title>>

\* ------------------------------------------------------------------ bounds
MaxCommits == 3         \* commits on the from branch
MaxMessageLen == 3      \* length of a subject line in the search model
MaxAuthorLen == 1       \* length of an author name in the search model
MaxTypedLen == 2        \* length of the typed search string
MaxBranchLen == 4       \* length of a branch name in the title model
MaxTextLen == 82        \* length of a text handed to truncate

\* ------------------------------------------------------- program constants
MessageLength == 80     \* truncate(commit.message, 80)
AuthorLength == 20      \* truncate(commit.author, 20)

\* --------------------------------------------------------------- strings
Range(s) == {s[i] : i \in 1..Len(s)}

SeqsUpTo(S, n) == UNION {[1..k -> S] : k \in 0..n}

Min(a, b) == IF a < b THEN a ELSE b

\* String.prototype.slice(from, to) with 0 <= from, 0-based, to exclusive
Slice(s, from, to) == SubSeq(s, from + 1, Min(to, Len(s)))

\* String.prototype.toLowerCase on the alphabet of the model
LowerChar(ch) ==
    CASE ch = "A" -> "a"
      [] ch = "B" -> "b"
      [] ch = "H" -> "h"
      [] OTHER -> ch

ToLowerCase(s) == [i \in 1..Len(s) |-> LowerChar(s[i])]

\* \w of a JavaScript regular expression: [A-Za-z0-9_]
WordChars == {"a", "b", "c", "e", "f", "h", "m", "y", "A", "B", "H",
              "1", "2", "3", "4", "5", "6", "7", "8", "9", "_"}

IsWhitespace(ch) == ch = " "

RECURSIVE RemoveNonWord(_)
\* s.replaceAll(/[^\w]/g, '')
RemoveNonWord(s) ==
    IF s = <<>> THEN <<>>
    ELSE IF Head(s) \in WordChars THEN <<Head(s)>> \o RemoveNonWord(Tail(s))
    ELSE RemoveNonWord(Tail(s))

\* String.prototype.includes
Includes(s, sub) ==
    \E i \in 0..(Len(s) - Len(sub)) : SubSeq(s, i + 1, i + Len(sub)) = sub

\* String.prototype.indexOf for one character; -1 when absent
IndexOf(s, ch) ==
    IF \E i \in 1..Len(s) : s[i] = ch
    THEN (CHOOSE i \in 1..Len(s) : s[i] = ch /\ \A j \in 1..(i - 1) : s[j] # ch) - 1
    ELSE -1

\* String.prototype.trim
Trim(s) ==
    LET keep == {i \in 1..Len(s) : ~IsWhitespace(s[i])}
    IN  IF keep = {} THEN <<>>
        ELSE SubSeq(s, CHOOSE i \in keep : \A j \in keep : i <= j,
                       CHOOSE i \in keep : \A j \in keep : i >= j)

\* ------------------------------------------------------------------ utils
Ellipsis == "..."       \* the single character U+2026

\* the slice taken one character too long
truncateKeepingLength(t, length) ==
    IF Len(t) > length
    THEN Trim(Slice(t, 0, length)) \o <<Ellipsis>>
    ELSE t

\* if text is longer than length: its first length - 1 characters, trimmed,
\* and an ellipsis; otherwise the text
truncate(t, length) ==
    IF Len(t) > length
    THEN Trim(Slice(t, 0, length - 1)) \o <<Ellipsis>>
    ELSE t

\* every hyphen replaced, the first one too
generatePullRequestTitleReplacingAll(branch) ==
    [i \in 1..Len(branch) |-> IF branch[i] = "-" THEN " " ELSE branch[i]]

\* branch.replaceAll('-', (_, index) => index !== firstDashIndex ? ' ' : '-')
generatePullRequestTitleFromBranch(branch) ==
    LET firstDashIndex == IndexOf(branch, "-")
    IN  [i \in 1..Len(branch) |->
            IF branch[i] = "-"
            THEN (IF (i - 1) # firstDashIndex THEN " " ELSE "-")
            ELSE branch[i]]

\* ------------------------------------------------------------------- Date
\* The local calendar date of a timestamp: days since 1970-01-01 converted
\* to the proleptic Gregorian calendar.
LocalDay(timestamp, offset) == (timestamp + offset) \div 86400

CivilDate(day) ==
    LET z   == day + 719468
        era == z \div 146097
        doe == z - era * 146097
        yoe == (doe - doe \div 1460 + doe \div 36524 - doe \div 146096) \div 365
        doy == doe - (365 * yoe + yoe \div 4 - yoe \div 100)
        mp  == (5 * doy + 2) \div 153
        d   == doy - (153 * mp + 2) \div 5 + 1
        m   == IF mp < 10 THEN mp + 3 ELSE mp - 9
        y   == yoe + era * 400 + (IF m <= 2 THEN 1 ELSE 0)
    IN  [year |-> y, month |-> m, date |-> d, weekday |-> (day + 4) % 7]

\* new Date(timestamp), read in the local time zone
NewDate(timestamp, offset) == CivilDate(LocalDay(timestamp, offset))

\* Date.prototype.getDate: the day of the month
GetDate(date) == date.date

\* date.toDateString(), e.g. "Fri Jan 05 2024": weekday, month, day, year
formatDate(date) == <<date.weekday, date.month, date.date, date.year>>

\* ------------------------------------------------------- external commands
HashChars == <<"1", "2", "3", "4", "5", "6", "7", "8", "9">>

FullHash(i) == <<"e", HashChars[i], "f", "c">>

\* %h: the abbreviated hash
ShortHash(i) == SubSeq(FullHash(i), 1, 2)

Undefined == <<"undefined">>

fromBranch == "dev"
toBranch == "master"

\* 2024-01-05 10:00, 2024-01-05 23:00 and 2024-02-05 10:00 (UTC)
Timestamps == {1704448800, 1704495600, 1707127200}

TimeZones == {0, 7200}

Delimiter == ":;:"

RECURSIVE Join(_, _)
\* Array.prototype.join of strings
Join(parts, sep) ==
    IF parts = <<>> THEN <<>>
    ELSE IF Len(parts) = 1 THEN parts[1]
    ELSE parts[1] \o <<sep>> \o Join(Tail(parts), sep)

\* the lines of `git cherry origin/<to> origin/<from>`: "+ <hash>" or
\* "- <hash>" per commit, oldest first, and the empty string after the last
\* line break
GitCherryOutputs ==
    {LET all == [i \in 1..MaxCommits |-> [sign |-> f[i], line |-> <<f[i], " ">> \o FullHash(i)]]
         present(l) == l.sign # "none"
         shown == SelectSeq(all, present)
     IN  [i \in 1..Len(shown) |-> shown[i].line] \o << <<>> >>
     : f \in [1..MaxCommits -> {"+", "-", "none"}]}

\* .split('\n').filter(line => line.startsWith('+')).map(line => line.slice(2))
getCherryPickableFullHashes(lines) ==
    LET startsWithPlus(line) == Len(line) >= 1 /\ line[1] = "+"
        plus == SelectSeq(lines, startsWithPlus)
    IN  [i \in 1..Len(plus) |-> Slice(plus[i], 2, Len(plus[i]))]

\* the subject of a commit; the one of commit 1 contains the delimiter
Subject(i) == IF i = 1 THEN << <<"m">>, <<"1">> >> ELSE << <<"m", HashChars[i]>> >>

Author(i) == <<"A", "b">>

\* the empty string: split gives [''], and Number('') is 0
EmptyLine == [at |-> 0, fields |-> <<>>]

\* the lines of `git log --pretty=format:...`, newest first, each split by
\* the delimiter (at is the number read from the first field, fields are
\* the others); an empty output is one empty line
GitLogOutputs ==
    {LET all == [i \in 1..MaxCommits |->
                    LET n == MaxCommits + 1 - i
                    IN  [at |-> f[n],
                         fields |-> <<ShortHash(n), FullHash(n), Author(n)>> \o Subject(n)]]
         present(l) == l.at # -1
         shown == SelectSeq(all, present)
     IN  IF shown = <<>> THEN <<EmptyLine>> ELSE shown
     : f \in [1..MaxCommits -> Timestamps \cup {-1}]}

\* an element of a destructured array, undefined past its end
Field(fields, k) == IF k <= Len(fields) THEN fields[k] ELSE Undefined

\* const [timestamp, hash, fullHash, author, ...message] = line.split(delimiter)
getLatestCommits(lines) ==
    [i \in 1..Len(lines) |->
        [branch |-> fromBranch,
         timestamp |-> lines[i].at,
         hash |-> Field(lines[i].fields, 1),
         fullHash |-> Field(lines[i].fields, 2),
         author |-> Field(lines[i].fields, 3),
         message |-> Join(SubSeq(lines[i].fields, 4, Len(lines[i].fields)), Delimiter)]]

\* ---------------------------------------------------------- the selection
\* Array.prototype.find by full hash: the first record, or none
Find(commits, fullHash) ==
    LET hits == {i \in 1..Len(commits) : commits[i].fullHash = fullHash}
    IN  IF hits = {} THEN <<>>
        ELSE <<commits[CHOOSE i \in hits : \A j \in hits : i <= j]>>

Reverse(s) == [i \in 1..Len(s) |-> s[Len(s) + 1 - i]]

\* the hashes for which the map of lines 70-75 throws
MissingCommits(fullHashes, commits) ==
    {i \in 1..Len(fullHashes) : Find(commits, fullHashes[i]) = <<>>}

\* a hash without a record skipped instead of thrown
CherryPickableCommitsSkipping(fullHashes, commits) ==
    LET found(fullHash) == Find(commits, fullHash) # <<>>
        known == SelectSeq(fullHashes, found)
    IN  [thrown |-> FALSE,
         fullHash |-> <<>>,
         commits |-> Reverse([i \in 1..Len(known) |-> Find(commits, known[i])[1]])]

\* lines 70-76: the records of the cherry-pickable hashes, reversed; the
\* first hash without a record throws
CherryPickableCommits(fullHashes, commits) ==
    LET missing == MissingCommits(fullHashes, commits)
    IN  IF missing # {}
        THEN [thrown |-> TRUE,
              fullHash |-> fullHashes[CHOOSE i \in missing : \A j \in missing : i <= j],
              commits |-> <<>>]
        ELSE [thrown |-> FALSE,
              fullHash |-> <<>>,
              commits |-> Reverse([i \in 1..Len(fullHashes) |-> Find(commits, fullHashes[i])[1]])]

\* the check for an empty list left out
IsEmptyUnchecked(list) == FALSE

\* lines 78 and 139: .length === 0
IsEmpty(list) == Len(list) = 0

RECURSIVE Flatten(_)
\* the concatenation of the arrays flatMap's callback returns
Flatten(ss) == IF ss = <<>> THEN <<>> ELSE Head(ss) \o Flatten(Tail(ss))

\* lines 103-112: the label of a commit
ChoiceMessage(commit, include, includeFullHashes) ==
    [marker |-> IF include # <<>>
                THEN (IF commit.fullHash \in Range(includeFullHashes) THEN "dim" ELSE "green")
                ELSE "none",
     hash |-> commit.hash,
     message |-> truncate(commit.message, MessageLength),
     author |-> truncate(commit.author, AuthorLength)]

\* line 123: `${hash} ${message} by ${author}` without non-word characters, lowercased
ChoiceQuery(commit) ==
    ToLowerCase(RemoveNonWord(
        commit.hash \o <<" ">> \o commit.message \o <<" ", "b", "y", " ">> \o commit.author))

\* lines 114-119: whether a separator precedes commit i
SeparatorBefore(commits, i, offset) ==
    \/ i = 1
    \/ GetDate(NewDate(commits[i].timestamp, offset))
         # GetDate(NewDate(commits[i - 1].timestamp, offset))

\* line 119: formatDate(prevCommitDate || currCommitDate)
SeparatorMessage(commits, i, offset) ==
    formatDate(IF i > 1 THEN NewDate(commits[i - 1].timestamp, offset)
                        ELSE NewDate(commits[i].timestamp, offset))

NoMessage == <<>>

\* lines 101-129: per commit an optional labelled separator and the entry,
\* then a final separator without a label
Choices(commits, include, includeFullHashes, offset) ==
    Flatten([i \in 1..Len(commits) |->
        (IF SeparatorBefore(commits, i, offset)
         THEN <<[role |-> "separator", message |-> SeparatorMessage(commits, i, offset)]>>
         ELSE <<>>)
        \o <<[role |-> "option",
              name |-> commits[i].fullHash,
              message |-> ChoiceMessage(commits[i], include, includeFullHashes),
              query |-> ChoiceQuery(commits[i]),
              indicator |-> ">"]>>])
    \o <<[role |-> "separator", message |-> NoMessage]>>

\* lines 89-100: keep the entries whose query includes the typed text, then
\* drop every separator that is last or followed by a separator
suggest(typedText, list) ==
    LET matches(choice) == \/ choice.role = "separator"
                           \/ Includes(choice.query, ToLowerCase(typedText))
        first == SelectSeq(list, matches)
        kept == {i \in 1..Len(first) :
                    \/ first[i].role # "separator"
                    \/ (i + 1 <= Len(first) /\ first[i + 1].role # "separator")}
        nth(k) == CHOOSE i \in kept : Cardinality({j \in kept : j <= i}) = k
    IN  [k \in 1..Cardinality(kept) |-> first[nth(k)]]

\* every answer of the multiple-choice prompt: names of option entries, none twice
Selections(list) ==
    LET names == {list[i].name : i \in {j \in 1..Len(list) : list[j].role = "option"}}
    IN  {s \in SeqsUpTo(names, Cardinality(names)) :
            \A i, j \in 1..Len(s) : i # j => s[i] # s[j]}

\* the selection left in the order of selection
SortOmitted(s) == s

RECURSIVE Sort(_)
\* Array.prototype.sort((a, b) => a.timestamp - b.timestamp): stable
Sort(s) ==
    IF s = <<>> THEN <<>>
    ELSE LET n == Len(s)
             rest == Sort(SubSeq(s, 1, n - 1))
             x == s[n]
             k == Cardinality({i \in 1..Len(rest) : rest[i].timestamp - x.timestamp <= 0})
         IN  SubSeq(rest, 1, k) \o <<x>> \o SubSeq(rest, k + 1, Len(rest))

\* lines 135-137
CherryPickCommits(fullHashes, commits) ==
    Sort([i \in 1..Len(fullHashes) |-> Find(commits, fullHashes[i])[1]])

\* the push placed before the cherry-picks
CommandPushingFirst(branch, commits) ==
    (IF branch # <<>>
     THEN <<[op |-> "git switch -c", branch |-> branch, start |-> <<"origin/", toBranch>>],
            [op |-> "git push -u origin", branch |-> branch]>>
     ELSE <<>>)
    \o [i \in 1..Len(commits) |-> [op |-> "git cherry-pick", fullHash |-> commits[i].fullHash]]
    \o (IF branch # <<>>
        THEN <<[op |-> "gh pr create -a @me -w",
                t |-> generatePullRequestTitleFromBranch(branch),
                B |-> toBranch, H |-> branch]>>
        ELSE <<>>)

\* lines 144-153: the statements of the command, in order
Command(branch, commits) ==
    (IF branch # <<>>
     THEN <<[op |-> "git switch -c", branch |-> branch, start |-> <<"origin/", toBranch>>]>>
     ELSE <<>>)
    \o [i \in 1..Len(commits) |-> [op |-> "git cherry-pick", fullHash |-> commits[i].fullHash]]
    \o (IF branch # <<>>
        THEN <<[op |-> "git push -u origin", branch |-> branch],
               [op |-> "gh pr create -a @me -w",
                t |-> generatePullRequestTitleFromBranch(branch),
                B |-> toBranch, H |-> branch]>>
        ELSE <<>>)

\* the outputs of `git cherry` against the include branch that the model
\* draws: every commit listed, none or the oldest one already merged
GitCherryIncludeOutputs ==
    {[i \in 1..MaxCommits |-> <<(IF i <= k THEN "-" ELSE "+"), " ">> \o FullHash(i)] \o << <<>> >>
     : k \in 0..1}

\* ---------------------------------------------------------------- script
scriptVars == <<pc, help, cherryPickBranch, includeBranch, tz,
                fromBranchCherryPickableFullHashes, includeBranchCherryPickableFullHashes,
                fromBranchCommits, fromBranchCherryPickableCommits, choices,
                cherryPickCommitsFullHashes, cherryPickCommits, command, stdout,
                clipboard, error, exitCode>>

utilVars == <<typed, suggested, text, truncated, title>>

InitScript ==
    /\ pc = "start"
    /\ fromBranchCherryPickableFullHashes = <<>>
    /\ includeBranchCherryPickableFullHashes = <<>>
    /\ fromBranchCommits = <<>>
    /\ fromBranchCherryPickableCommits = <<>>
    /\ choices = <<>>
    /\ cherryPickCommitsFullHashes = <<>>
    /\ cherryPickCommits = <<>>
    /\ command = <<>>
    /\ stdout = <<>>
    /\ clipboard = <<>>
    /\ error = "none"
    /\ exitCode = -1

InitUtils ==
    /\ typed = <<>>
    /\ suggested = <<>>
    /\ text = <<>>
    /\ truncated = <<>>
    /\ title = <<>>

Init ==
    /\ InitScript
    /\ InitUtils
    /\ help \in BOOLEAN
    /\ cherryPickBranch \in {<<>>, <<"H", "-", "1", "-", "c">>}
    /\ includeBranch \in {<<>>, <<"r">>}
    /\ tz \in TimeZones

\* process.exit(code), or the end of the script
Exit(code) ==
    /\ pc' = "exited"
    /\ exitCode' = code

\* lines 25-57
PrintHelp ==
    /\ pc = "start"
    /\ help
    /\ stdout' = Append(stdout, "help")
    /\ Exit(0)
    /\ UNCHANGED <<help, cherryPickBranch, includeBranch, tz,
                   fromBranchCherryPickableFullHashes, includeBranchCherryPickableFullHashes,
                   fromBranchCommits, fromBranchCherryPickableCommits, choices,
                   cherryPickCommitsFullHashes, cherryPickCommits, command,
                   clipboard, error>>
    /\ UNCHANGED utilVars

\* lines 59-68, every command succeeding
FetchCommits ==
    /\ pc = "start"
    /\ ~help
    /\ \E cherry \in GitCherryOutputs, log \in GitLogOutputs :
          /\ fromBranchCherryPickableFullHashes' = getCherryPickableFullHashes(cherry)
          /\ fromBranchCommits' = getLatestCommits(log)
    /\ IF includeBranch # <<>>
       THEN \E cherry \in GitCherryIncludeOutputs :
               includeBranchCherryPickableFullHashes' = getCherryPickableFullHashes(cherry)
       ELSE includeBranchCherryPickableFullHashes' = <<>>
    /\ pc' = "fetched"
    /\ UNCHANGED <<help, cherryPickBranch, includeBranch, tz,
                   fromBranchCherryPickableCommits, choices,
                   cherryPickCommitsFullHashes, cherryPickCommits, command, stdout,
                   clipboard, error, exitCode>>
    /\ UNCHANGED utilVars

\* lines 205-211: execSync throws (unknown branch, git failing): uncaught
FetchFails ==
    /\ pc = "start"
    /\ ~help
    /\ error' = "Command failed"
    /\ Exit(1)
    /\ UNCHANGED <<help, cherryPickBranch, includeBranch, tz,
                   fromBranchCherryPickableFullHashes, includeBranchCherryPickableFullHashes,
                   fromBranchCommits, fromBranchCherryPickableCommits, choices,
                   cherryPickCommitsFullHashes, cherryPickCommits, command, stdout,
                   clipboard>>
    /\ UNCHANGED utilVars

\* lines 70-133 up to the prompt waiting for the user: the missing-commit
\* error, the exit on no candidates, or the prompt with its choice list
SelectCommits ==
    /\ pc = "fetched"
    /\ LET matched == CherryPickableCommits(fromBranchCherryPickableFullHashes, fromBranchCommits)
       IN  IF matched.thrown
           THEN /\ error' = "Missing commit"
                /\ Exit(1)
                /\ UNCHANGED <<fromBranchCherryPickableCommits, choices, stdout>>
           ELSE /\ fromBranchCherryPickableCommits' = matched.commits
                /\ IF IsEmpty(matched.commits)
                   THEN /\ stdout' = Append(stdout, "No commits to pick from")
                        /\ Exit(0)
                        /\ UNCHANGED <<choices, error>>
                   ELSE /\ choices' = Choices(matched.commits, includeBranch,
                                              includeBranchCherryPickableFullHashes, tz)
                        /\ pc' = "select"
                        /\ UNCHANGED <<stdout, error, exitCode>>
    /\ UNCHANGED <<help, cherryPickBranch, includeBranch, tz,
                   fromBranchCherryPickableFullHashes, includeBranchCherryPickableFullHashes,
                   fromBranchCommits, cherryPickCommitsFullHashes, cherryPickCommits,
                   command, clipboard>>
    /\ UNCHANGED utilVars

\* lines 130-133: the prompt rejects when the user cancels; caught
CancelSelect ==
    /\ pc = "select"
    /\ stdout' = Append(stdout, "Operation aborted by user")
    /\ Exit(0)
    /\ UNCHANGED <<help, cherryPickBranch, includeBranch, tz,
                   fromBranchCherryPickableFullHashes, includeBranchCherryPickableFullHashes,
                   fromBranchCommits, fromBranchCherryPickableCommits, choices,
                   cherryPickCommitsFullHashes, cherryPickCommits, command,
                   clipboard, error>>
    /\ UNCHANGED utilVars

\* lines 135-164 up to the confirmation waiting for the user: the prompt
\* resolves with the selected names
SubmitSelect ==
    /\ pc = "select"
    /\ \E selection \in Selections(choices) :
          LET picked == CherryPickCommits(selection, fromBranchCherryPickableCommits)
          IN  /\ cherryPickCommitsFullHashes' = selection
              /\ cherryPickCommits' = picked
              /\ IF IsEmpty(picked)
                 THEN /\ stdout' = Append(stdout, "No commits were picked")
                      /\ Exit(0)
                      /\ UNCHANGED command
                 ELSE /\ command' = Command(cherryPickBranch, picked)
                      /\ stdout' = stdout \o <<"", "command", "">>
                      /\ pc' = "confirm"
                      /\ UNCHANGED exitCode
    /\ UNCHANGED <<help, cherryPickBranch, includeBranch, tz,
                   fromBranchCherryPickableFullHashes, includeBranchCherryPickableFullHashes,
                   fromBranchCommits, fromBranchCherryPickableCommits, choices,
                   clipboard, error>>
    /\ UNCHANGED utilVars

\* lines 166-169: the confirmation resolves with the answer
SubmitConfirm ==
    /\ pc = "confirm"
    /\ \E shouldCopyToClipboard \in BOOLEAN :
          IF shouldCopyToClipboard
          THEN /\ clipboard' = command
               /\ stdout' = Append(stdout, "Copied to clipboard!")
          ELSE UNCHANGED <<clipboard, stdout>>
    /\ Exit(0)
    /\ UNCHANGED <<help, cherryPickBranch, includeBranch, tz,
                   fromBranchCherryPickableFullHashes, includeBranchCherryPickableFullHashes,
                   fromBranchCommits, fromBranchCherryPickableCommits, choices,
                   cherryPickCommitsFullHashes, cherryPickCommits, command, error>>
    /\ UNCHANGED utilVars

\* lines 160-164: the confirmation rejects when the user cancels; nothing
\* catches it, and the rejected top-level await ends the process
CancelConfirm ==
    /\ pc = "confirm"
    /\ error' = "cancelled"
    /\ Exit(1)
    /\ UNCHANGED <<help, cherryPickBranch, includeBranch, tz,
                   fromBranchCherryPickableFullHashes, includeBranchCherryPickableFullHashes,
                   fromBranchCommits, fromBranchCherryPickableCommits, choices,
                   cherryPickCommitsFullHashes, cherryPickCommits, command, stdout,
                   clipboard>>
    /\ UNCHANGED utilVars

Next ==
    \/ PrintHelp
    \/ FetchCommits
    \/ FetchFails
    \/ SelectCommits
    \/ CancelSelect
    \/ SubmitSelect
    \/ SubmitConfirm
    \/ CancelConfirm

Spec == Init /\ [][Next]_vars

\* ------------------------------------------------- the search of the prompt
SearchChars == {"a", "B", " "}

\* a commit of the search model
SearchCommit(i, timestamp, message, author) ==
    [branch |-> fromBranch, timestamp |-> timestamp, hash |-> ShortHash(i),
     fullHash |-> FullHash(i), author |-> author, message |-> message]

\* the prompt open on two candidates of different days, the first with any
\* subject and author
InitSearch ==
    /\ InitUtils
    /\ help = FALSE
    /\ cherryPickBranch = <<>>
    /\ includeBranch = <<>>
    /\ tz = 0
    /\ \E message \in SeqsUpTo(SearchChars, MaxMessageLen),
          author \in SeqsUpTo(SearchChars, MaxAuthorLen) :
          /\ fromBranchCherryPickableCommits =
                <<SearchCommit(2, 1707127200, message, author),
                  SearchCommit(1, 1704495600, <<"c">>, <<"c">>)>>
          /\ fromBranchCommits = fromBranchCherryPickableCommits
          /\ fromBranchCherryPickableFullHashes = <<FullHash(1), FullHash(2)>>
          /\ choices = Choices(fromBranchCherryPickableCommits, <<>>, <<>>, 0)
    /\ includeBranchCherryPickableFullHashes = <<>>
    /\ pc = "select"
    /\ cherryPickCommitsFullHashes = <<>>
    /\ cherryPickCommits = <<>>
    /\ command = <<>>
    /\ stdout = <<>>
    /\ clipboard = <<>>
    /\ error = "none"
    /\ exitCode = -1

\* lines 89-100: the user edits the search text and the prompt asks suggest
\* for the entries to show
Type ==
    /\ pc \in {"select", "typed"}
    /\ \E input \in SeqsUpTo(SearchChars, MaxTypedLen) :
          /\ typed' = input
          /\ suggested' = suggest(input, choices)
    /\ pc' = "typed"
    /\ UNCHANGED <<help, cherryPickBranch, includeBranch, tz,
                   fromBranchCherryPickableFullHashes, includeBranchCherryPickableFullHashes,
                   fromBranchCommits, fromBranchCherryPickableCommits, choices,
                   cherryPickCommitsFullHashes, cherryPickCommits, command, stdout,
                   clipboard, error, exitCode>>
    /\ UNCHANGED <<text, truncated, title>>

NextSearch == Type

SpecSearch == InitSearch /\ [][NextSearch]_vars

\* -------------------------------------------------------------- truncate
\* where the texts of the model have their spaces
SpacePositions == {1, 2, 40, 78, 79, 80, 81}

\* the text of n characters with spaces at the positions of S
TextOf(n, S) == [i \in 1..n |-> IF i \in S THEN " " ELSE "a"]

InitTruncate ==
    /\ InitScript
    /\ help = FALSE
    /\ cherryPickBranch = <<>>
    /\ includeBranch = <<>>
    /\ tz = 0
    /\ typed = <<>>
    /\ suggested = <<>>
    /\ truncated = <<>>
    /\ title = <<>>
    /\ \E n \in 0..MaxTextLen, S \in SUBSET SpacePositions : text = TextOf(n, S)

\* line 110: truncate(commit.message, 80)
TruncateMessage ==
    /\ pc = "start"
    /\ truncated' = truncate(text, MessageLength)
    /\ pc' = "truncated"
    /\ UNCHANGED <<help, cherryPickBranch, includeBranch, tz,
                   fromBranchCherryPickableFullHashes, includeBranchCherryPickableFullHashes,
                   fromBranchCommits, fromBranchCherryPickableCommits, choices,
                   cherryPickCommitsFullHashes, cherryPickCommits, command, stdout,
                   clipboard, error, exitCode>>
    /\ UNCHANGED <<typed, suggested, text, title>>

NextTruncate == TruncateMessage

SpecTruncate == InitTruncate /\ [][NextTruncate]_vars

\* ------------------------------------------------ the pull request's title
BranchChars == {"H", "1", "-"}

\* HRIS-123-CP-PROD
ExampleBranch == <<"H", "R", "I", "S", "-", "1", "2", "3", "-", "C", "P", "-", "P", "R", "O", "D">>

InitTitle ==
    /\ InitScript
    /\ help = FALSE
    /\ includeBranch = <<>>
    /\ tz = 0
    /\ typed = <<>>
    /\ suggested = <<>>
    /\ text = <<>>
    /\ truncated = <<>>
    /\ title = <<>>
    /\ cherryPickBranch \in SeqsUpTo(BranchChars, MaxBranchLen) \cup {ExampleBranch}

\* line 151: the title of the pull request
GenerateTitle ==
    /\ pc = "start"
    /\ title' = generatePullRequestTitleFromBranch(cherryPickBranch)
    /\ pc' = "titled"
    /\ UNCHANGED <<help, cherryPickBranch, includeBranch, tz,
                   fromBranchCherryPickableFullHashes, includeBranchCherryPickableFullHashes,
                   fromBranchCommits, fromBranchCherryPickableCommits, choices,
                   cherryPickCommitsFullHashes, cherryPickCommits, command, stdout,
                   clipboard, error, exitCode>>
    /\ UNCHANGED <<typed, suggested, text, truncated>>

NextTitle == GenerateTitle

SpecTitle == InitTitle /\ [][NextTitle]_vars

\* ------------------------------------------------------------ properties
\* the cherry-pick statements of the command, in order
CherryPickSteps ==
    LET isPick(step) == step.op = "git cherry-pick"
    IN  SelectSeq(command, isPick)

\* the timestamp of the candidate with a full hash
TimestampOf(fullHash) == Find(fromBranchCherryPickableCommits, fullHash)[1].timestamp

\* C1: the cherry-pick statements of the generated command are in
\* non-decreasing order of commit timestamp, whatever the order of selection
C1_CherryPicksOldestFirst ==
    \A i, j \in 1..Len(CherryPickSteps) :
        i < j => TimestampOf(CherryPickSteps[i].fullHash) <= TimestampOf(CherryPickSteps[j].fullHash)

\* a command generated for a newer commit selected before an older one
C1_Witness ==
    /\ pc = "confirm"
    /\ Len(cherryPickCommitsFullHashes) >= 2
    /\ TimestampOf(cherryPickCommitsFullHashes[1]) > TimestampOf(cherryPickCommitsFullHashes[2])

\* C2: with a branch name the command is the switch, one cherry-pick per
\* selected commit by full hash, the push and the pull request, in this
\* order; without one it is the cherry-picks only
C2_CommandShape ==
    pc = "confirm" =>
        LET n == Len(cherryPickCommitsFullHashes)
            named == cherryPickBranch # <<>>
            first == IF named THEN 1 ELSE 0
        IN  /\ Len(command) = n + (IF named THEN 3 ELSE 0)
            /\ \A i \in 1..n : command[first + i].op = "git cherry-pick"
            /\ \A h \in Range(cherryPickCommitsFullHashes) :
                  Cardinality({i \in 1..n : command[first + i].fullHash = h}) = 1
            /\ \A i \in 1..n : command[first + i].fullHash \in Range(cherryPickCommitsFullHashes)
            /\ named =>
                  /\ command[1].op = "git switch -c"
                  /\ command[1].branch = cherryPickBranch
                  /\ command[1].start = <<"origin/", toBranch>>
                  /\ command[n + 2].op = "git push -u origin"
                  /\ command[n + 2].branch = cherryPickBranch
                  /\ command[n + 3].op = "gh pr create -a @me -w"

\* a command generated for a named branch and two commits
C2_Witness ==
    /\ pc = "confirm"
    /\ cherryPickBranch # <<>>
    /\ Len(cherryPickCommitsFullHashes) = 2
    /\ Len(command) = 5

\* the user cancelled a prompt
Cancelled == error = "cancelled" \/ "Operation aborted by user" \in Range(stdout)

\* C3: a cancellation at either prompt ends the process with status 0 and
\* without an uncaught error
C3_CancelExitsCleanly ==
    Cancelled => (pc = "exited" /\ exitCode = 0 /\ error = "none")

\* the script is past lines 70-76
Matched == pc \notin {"start", "fetched"}

\* C4: a cherry-pickable hash without a record ends the run with the
\* Missing commit error before any prompt or command; at the prompt every
\* hash has exactly one candidate and every candidate is a fetched commit
C4_MissingCommitThrows ==
    /\ (Matched /\ MissingCommits(fromBranchCherryPickableFullHashes, fromBranchCommits) # {}) =>
          /\ pc = "exited"
          /\ exitCode = 1
          /\ error = "Missing commit"
          /\ choices = <<>>
          /\ command = <<>>
    /\ choices # <<>> =>
          /\ Len(fromBranchCherryPickableCommits) = Len(fromBranchCherryPickableFullHashes)
          /\ \A h \in Range(fromBranchCherryPickableFullHashes) :
                Cardinality({i \in 1..Len(fromBranchCherryPickableCommits) :
                                fromBranchCherryPickableCommits[i].fullHash = h}) = 1
          /\ Range(fromBranchCherryPickableCommits) \subseteq Range(fromBranchCommits)

\* the run ended on a hash without a record, another hash having one
C4_Witness ==
    /\ error = "Missing commit"
    /\ Len(fromBranchCherryPickableFullHashes) >= 2
    /\ \E h \in Range(fromBranchCherryPickableFullHashes) : Find(fromBranchCommits, h) # <<>>

\* the selection prompt resolved (it was shown, and not cancelled)
SelectionSubmitted ==
    /\ choices # <<>>
    /\ pc # "select"
    /\ "Operation aborted by user" \notin Range(stdout)

\* C5: the command is printed, the confirmation shown and the clipboard
\* written only for a selection of at least one commit; no candidates, and
\* an empty selection, end the process with status 0 and none of these
C5_NoCommandWithoutSelection ==
    /\ ("command" \in Range(stdout) \/ pc = "confirm" \/ command # <<>> \/ clipboard # <<>>) =>
          Len(cherryPickCommits) >= 1
    /\ (Matched /\ ~help /\ error = "none" /\ fromBranchCherryPickableFullHashes = <<>>) =>
          /\ pc = "exited"
          /\ exitCode = 0
          /\ choices = <<>>
          /\ "command" \notin Range(stdout)
    /\ (SelectionSubmitted /\ cherryPickCommitsFullHashes = <<>>) =>
          /\ pc = "exited"
          /\ exitCode = 0
          /\ "command" \notin Range(stdout)

\* the user confirmed an empty selection
C5_Witness ==
    /\ SelectionSubmitted
    /\ cherryPickCommitsFullHashes = <<>>
    /\ pc = "exited"
    /\ Len(fromBranchCherryPickableCommits) >= 1

\* the position in the choice list of the entry of candidate i
EntryOf(i) ==
    CHOOSE k \in 1..Len(choices) :
        choices[k].role = "option" /\ choices[k].name = fromBranchCherryPickableCommits[i].fullHash

\* the separators between the entries of candidates i and i + 1
SeparatorsAfter(i) ==
    {k \in (EntryOf(i) + 1)..(EntryOf(i + 1) - 1) : choices[k].role = "separator"}

\* same year, month and day in the local time zone
SameLocalDay(a, b) == LocalDay(a.timestamp, tz) = LocalDay(b.timestamp, tz)

\* C6: between the entries of two consecutive candidates there is no
\* separator when they are on the same local calendar day and exactly one
\* when they are not
C6_OneSeparatorPerDayChange ==
    choices # <<>> =>
        \A i \in 1..(Len(fromBranchCherryPickableCommits) - 1) :
            Cardinality(SeparatorsAfter(i)) =
                (IF SameLocalDay(fromBranchCherryPickableCommits[i],
                                 fromBranchCherryPickableCommits[i + 1])
                 THEN 0 ELSE 1)

\* the labelled separators of the choice list
LabelledSeparators ==
    {k \in 1..Len(choices) : choices[k].role = "separator" /\ choices[k].message # NoMessage}

\* C10: a labelled separator carries the local date of the entry after it,
\* and separators heading groups of different days carry different labels
C10_SeparatorCarriesDateOfNextEntry ==
    /\ \A k \in LabelledSeparators :
          /\ k < Len(choices)
          /\ choices[k + 1].role = "option"
          /\ choices[k].message = formatDate(NewDate(TimestampOf(choices[k + 1].name), tz))
    /\ \A k, l \in LabelledSeparators :
          (/\ k < l
           /\ LocalDay(TimestampOf(choices[k + 1].name), tz)
                # LocalDay(TimestampOf(choices[l + 1].name), tz))
          => choices[k].message # choices[l].message

\* the typed text is, whatever the case, a part of the string
TypedPartOf(string) == Includes(ToLowerCase(string), ToLowerCase(typed))

\* C7: suggest keeps the entry of every candidate whose subject or author
\* name contains the typed text, whatever the case
C7_SearchKeepsMatchingCommits ==
    pc = "typed" =>
        \A i \in 1..Len(fromBranchCherryPickableCommits) :
            LET commit == fromBranchCherryPickableCommits[i]
            IN  (TypedPartOf(commit.message) \/ TypedPartOf(commit.author)) =>
                    \E k \in 1..Len(suggested) :
                        suggested[k].role = "option" /\ suggested[k].name = commit.fullHash

\* C8 as stated: a text of at most 80 characters is returned unchanged, a
\* longer one as its first 79 characters and the ellipsis
C8_TruncateKeepsFirst79 ==
    pc = "truncated" =>
        truncated = (IF Len(text) <= 80 THEN text ELSE SubSeq(text, 1, 79) \o <<Ellipsis>>)

\* the result of truncate without its last character
TruncatedBody == SubSeq(truncated, 1, Len(truncated) - 1)

\* C8 amended: a text of at most 80 characters is returned unchanged; a
\* longer one as its first 79 characters without the whitespace at their
\* two ends, then the ellipsis: at most 80 characters, and exactly the
\* first 79 and the ellipsis when these neither start nor end with
\* whitespace
C8_TruncateTrimsFirst79 ==
    pc = "truncated" =>
        IF Len(text) <= 80
        THEN truncated = text
        ELSE /\ 1 <= Len(truncated) /\ Len(truncated) <= 80
             /\ truncated[Len(truncated)] = Ellipsis
             /\ \E before, after \in 0..79 :
                   /\ before + after + Len(TruncatedBody) = 79
                   /\ TruncatedBody = SubSeq(text, before + 1, 79 - after)
                   /\ \A i \in (1..before) \cup ((80 - after)..79) : text[i] = " "
             /\ TruncatedBody # <<>> =>
                   (TruncatedBody[1] # " " /\ TruncatedBody[Len(TruncatedBody)] # " ")
             /\ (text[1] # " " /\ text[79] # " ") =>
                   truncated = SubSeq(text, 1, 79) \o <<Ellipsis>>

\* a text longer than 80 characters whose 79th is a space was truncated
C8_Witness ==
    /\ pc = "truncated"
    /\ Len(text) > 80
    /\ text[79] = " "
    /\ Len(truncated) < 80

\* C9: the title has the length of the branch name, its first hyphen kept,
\* every later hyphen a space and every other character unchanged
C9_TitleKeepsFirstHyphen ==
    pc = "titled" =>
        /\ Len(title) = Len(cherryPickBranch)
        /\ \A i \in 1..Len(cherryPickBranch) :
              IF cherryPickBranch[i] # "-" THEN title[i] = cherryPickBranch[i]
              ELSE IF \E j \in 1..(i - 1) : cherryPickBranch[j] = "-" THEN title[i] = " "
              ELSE title[i] = "-"
        /\ cherryPickBranch = ExampleBranch =>
              title = <<"H", "R", "I", "S", "-", "1", "2", "3", " ", "C", "P", " ", "P", "R", "O", "D">>
        /\ "-" \notin Range(cherryPickBranch) => title = cherryPickBranch

\* the title of a branch name with several hyphens
C9_Witness ==
    /\ pc = "titled"
    /\ Cardinality({i \in 1..Len(cherryPickBranch) : cherryPickBranch[i] = "-"}) >= 2

====
